---- MODULE Spec2Model ----
(***************************************************************************)
(* Model of refactoring_solid.py: three validation rules                   *)
(* (SksLimitRule, PrerequisiteRule, JadwalBentrokRule) and the             *)
(* RegistrationService that runs an injected list of them.                 *)
(*                                                                         *)
(* A Python dict is a function whose DOMAIN is its set of keys, so a       *)
(* missing key is a key outside the DOMAIN.  A verdict is one of the       *)
(* strings "True", "False" (the bool returned) or "Error" (an exception    *)
(* left the function).                                                     *)
(***************************************************************************)
EXTENDS Integers, Sequences, FiniteSets, TLC

VARIABLES
    heap,           \* list objects: name of the list object -> its contents
    self_rules,     \* RegistrationService.rules: a reference into heap
    constructed,    \* history: contents of the injected list at construction
    pc,             \* per call frame: "idle", "for", "sks", "prasyarat", "jadwal", "done"
    data,           \* per call frame: the request passed to register_student
    passed,         \* history, per call frame: the request as it was when passed
    rule_idx,       \* per call frame: position of the list iterator of line 62
    rule,           \* per call frame: the rule being validated
    k,              \* per call frame: position of the course loop inside a rule
    sks_terpilih,   \* per call frame: running total of SksLimitRule (line 21)
    jadwal,         \* per scope: the set of seen time slots (line 80)
    result,         \* per call frame: "None" while running, else the outcome
    invoked,        \* history, per call frame: rules validated, in call order
    reported,       \* history, per call frame: rule names printed by line 66
    overlapped,     \* history, per call frame: another call ran during this one
    earlier,        \* history: one finished call (its request and result)
    rule_data,      \* the request a rule is applied to directly
    rule_out        \* the rule applied directly and its verdict

vars == <<heap, self_rules, constructed, pc, data, passed, rule_idx, rule, k,
          sks_terpilih, jadwal, result, invoked, reported, overlapped,
          earlier, rule_data, rule_out>>

frameVars == <<pc, data, passed, rule_idx, rule, k, sks_terpilih, jadwal,
               result, invoked, reported, overlapped>>

----------------------------------------------------------------------------
(* Bounds of the model *)

MaxCourses == 3
MaxRules == 3
NumCalls == 2

----------------------------------------------------------------------------
(* Python values *)

None == "None"
EmptyDict == <<>>
EmptyList == <<>>

\* dict.get(key, default)
Get(d, key, default) == IF key \in DOMAIN d THEN d[key] ELSE default

\* d[key]: <<value>>, or <<>> when the read raises KeyError
Index(d, key) == IF key \in DOMAIN d THEN <<d[key]>> ELSE <<>>

Raised(read) == read = <<>>
Value(read) == read[1]

\* truth value of a prerequisite entry: None and the empty string are falsy
Truthy(v) == v \notin {None, ""}

\* set(list)
ToSet(list) == {list[i] : i \in DOMAIN list}

DefaultMaxSks == 24

----------------------------------------------------------------------------
(* SksLimitRule.validate *)

HasSks(kursus) == "sks" \in DOMAIN kursus

\* one term of sum(k['sks'] for k in kursus_terpilih)
SksAccumulate(total, kursus) == total + kursus["sks"]

\* the limit read without a default
BatasSksIndexed(mahasiswa) == Index(mahasiswa, "max_sks")

\* line 22: mahasiswa.get("max_sks", 24), a read that cannot raise
BatasSks(mahasiswa) == <<Get(mahasiswa, "max_sks", DefaultMaxSks)>>

SksExceedsOrEqual(total, batas) == total >= batas

SksExceeds(total, batas) == total > batas

RECURSIVE SumSks(_, _, _)
SumSks(kursus_terpilih, i, total) ==
    IF i > Len(kursus_terpilih) THEN total
    ELSE SumSks(kursus_terpilih, i + 1, SksAccumulate(total, kursus_terpilih[i]))

SksLimitValidate(d) ==
    LET mahasiswa == Get(d, "mahasiswa", EmptyDict)
        kursus_terpilih == Get(d, "kursus_terpilih", EmptyList)
    IN  IF \E i \in DOMAIN kursus_terpilih : ~HasSks(kursus_terpilih[i])
        THEN "Error"
        ELSE IF Raised(BatasSks(mahasiswa))
        THEN "Error"
        ELSE IF SksExceeds(SumSks(kursus_terpilih, 1, 0),
                           Value(BatasSks(mahasiswa)))
             THEN "False"
             ELSE "True"

----------------------------------------------------------------------------
(* PrerequisiteRule.validate *)

RiwayatLulus(mahasiswa) == ToSet(Get(mahasiswa, "riwayat_kursus", EmptyList))

PrasyaratMissingFromHistory(kursus, riwayat_lulus) ==
    Get(kursus, "prasyarat", None) \notin riwayat_lulus

\* the condition of line 41
PrasyaratUnmet(kursus, riwayat_lulus) ==
    LET prasyarat == Get(kursus, "prasyarat", None)
    IN  Truthy(prasyarat) /\ prasyarat \notin riwayat_lulus

\* lines 42-43: the message reads kursus['nama'] before False is returned
PrasyaratFailure(kursus) == IF "nama" \in DOMAIN kursus THEN "False" ELSE "Error"

RECURSIVE PrerequisiteFrom(_, _, _)
PrerequisiteFrom(kursus_terpilih, i, riwayat_lulus) ==
    IF i > Len(kursus_terpilih) THEN "True"
    ELSE IF PrasyaratUnmet(kursus_terpilih[i], riwayat_lulus)
         THEN PrasyaratFailure(kursus_terpilih[i])
         ELSE PrerequisiteFrom(kursus_terpilih, i + 1, riwayat_lulus)

PrerequisiteValidate(d) ==
    LET mahasiswa == Get(d, "mahasiswa", EmptyDict)
        kursus_terpilih == Get(d, "kursus_terpilih", EmptyList)
    IN  PrerequisiteFrom(kursus_terpilih, 1, RiwayatLulus(mahasiswa))

----------------------------------------------------------------------------
(* JadwalBentrokRule.validate *)

Waktu(kursus) == Get(kursus, "jadwal", None)

\* a variant that remembers only the latest slot
JadwalAddLatestOnly(seen, waktu) == {waktu}

\* line 86: jadwal.add(waktu)
JadwalAdd(seen, waktu) == seen \cup {waktu}

\* line 83: waktu in jadwal
Bentrok(waktu, seen) == waktu \in seen

RECURSIVE JadwalFrom(_, _, _)
JadwalFrom(kursus_terpilih, i, seen) ==
    IF i > Len(kursus_terpilih) THEN "True"
    ELSE IF Bentrok(Waktu(kursus_terpilih[i]), seen) THEN "False"
         ELSE JadwalFrom(kursus_terpilih, i + 1,
                         JadwalAdd(seen, Waktu(kursus_terpilih[i])))

JadwalBentrokValidate(d) ==
    JadwalFrom(Get(d, "kursus_terpilih", EmptyList), 1, {})

----------------------------------------------------------------------------
(* rule.validate(data), by the class of the rule *)

RuleClasses == {"SksLimitRule", "PrerequisiteRule", "JadwalBentrokRule"}

Validate(r, d) ==
    CASE r = "SksLimitRule" -> SksLimitValidate(d)
      [] r = "PrerequisiteRule" -> PrerequisiteValidate(d)
      [] r = "JadwalBentrokRule" -> JadwalBentrokValidate(d)

----------------------------------------------------------------------------
(* Requests *)

\* the two requests of the demonstration (lines 94-100 and 113-120)
data_mahasiswa_valid ==
    [mahasiswa |-> [nama |-> "Budi", max_sks |-> 24,
                    riwayat_kursus |-> <<"DASPRO", "ALGORITMA">>],
     kursus_terpilih |-> <<
        [nama |-> "STRUKTUR DATA", sks |-> 4, prasyarat |-> "ALGORITMA",
         jadwal |-> "SENIN 10:00"],
        [nama |-> "JARINGAN KOMPUTER", sks |-> 4, prasyarat |-> None,
         jadwal |-> "SELASA 08:00"] >>]

data_mahasiswa_gagal_sks ==
    [mahasiswa |-> [nama |-> "Andi", max_sks |-> 8,
                    riwayat_kursus |-> <<"DASPRO", "ALGORITMA">>],
     kursus_terpilih |-> <<
        [nama |-> "STRUKTUR DATA", sks |-> 4, prasyarat |-> "ALGORITMA",
         jadwal |-> "SENIN 10:00"],
        [nama |-> "JARINGAN KOMPUTER", sks |-> 4, prasyarat |-> None,
         jadwal |-> "SELASA 08:00"],
        [nama |-> "BASIS DATA", sks |-> 4, prasyarat |-> None,
         jadwal |-> "RABU 13:00"] >>]

DemoRequests == {data_mahasiswa_valid, data_mahasiswa_gagal_sks}

Slots == {"SENIN 10:00", "SELASA 08:00"}
Histories == {<<"DASPRO">>, <<"DASPRO", "ALGORITMA">>}

\* students with and without the optional max_sks
Students ==
    [nama : {"Budi"}, max_sks : {26}, riwayat_kursus : Histories]
    \cup [nama : {"Budi"}, riwayat_kursus : Histories]

\* courses with a prerequisite that is null, empty or a course name, and
\* courses without the optional prasyarat key
Courses ==
    [nama : {"STRUKTUR DATA"}, sks : {12, 13},
     prasyarat : {None, "", "ALGORITMA"}, jadwal : Slots]
    \cup [nama : {"STRUKTUR DATA"}, sks : {12, 13}, jadwal : Slots]

SeqsUpTo(S, n) == UNION {[1..m -> S] : m \in 0..n}

Requests ==
    [mahasiswa : Students, kursus_terpilih : SeqsUpTo(Courses, MaxCourses)]

\* requests with keys missing that the code reads
PartialRequests ==
    LET budi == [nama |-> "Budi", riwayat_kursus |-> <<"DASPRO">>]
        ok == [nama |-> "STRUKTUR DATA", sks |-> 12, jadwal |-> "SENIN 10:00"]
    IN  { [kursus_terpilih |-> <<ok>>],
          [mahasiswa |-> budi],
          [mahasiswa |-> [riwayat_kursus |-> <<"DASPRO">>],
           kursus_terpilih |-> <<ok>>],
          [mahasiswa |-> [nama |-> "Budi"],
           kursus_terpilih |-> <<[ok EXCEPT !.jadwal = "SELASA 08:00"],
               [nama |-> "BASIS DATA", sks |-> 12, prasyarat |-> "DASPRO",
                jadwal |-> "SENIN 10:00"]>>],
          [mahasiswa |-> budi,
           kursus_terpilih |-> <<ok, [nama |-> "BASIS DATA",
                                       jadwal |-> "SELASA 08:00"]>>],
          [mahasiswa |-> budi,
           kursus_terpilih |-> <<ok, [sks |-> 12, prasyarat |-> "ALGORITMA",
                                       jadwal |-> "SELASA 08:00"]>>],
          [mahasiswa |-> budi,
           kursus_terpilih |-> <<ok, [sks |-> 12, prasyarat |-> "DASPRO",
                                       jadwal |-> "SELASA 08:00"]>>],
          [mahasiswa |-> budi,
           kursus_terpilih |-> <<[nama |-> "STRUKTUR DATA", sks |-> 12],
                                 [nama |-> "BASIS DATA", sks |-> 12]>>] }

RuleInputs == Requests \cup DemoRequests \cup PartialRequests

----------------------------------------------------------------------------
(* The state after RegistrationService(aturan) *)

Injective(list) ==
    \A i, j \in DOMAIN list : i # j => list[i] # list[j]

\* ordered rule sets: each rule class at most once
RuleLists == {l \in SeqsUpTo(RuleClasses, MaxRules) : Injective(l)}

aturan_lengkap == <<"SksLimitRule", "PrerequisiteRule", "JadwalBentrokRule">>

Calls == 1..NumCalls

NoRequest == [kursus_terpilih |-> EmptyList]
NoEarlier == [data |-> NoRequest, result |-> "None"]
NoRule == [rule |-> "None", verdict |-> "None"]

\* line 56: self.rules = validation_rules keeps the reference it was given
NewService(validation_rules) == validation_rules

InitService(list) ==
    /\ heap = [a \in {"aturan"} |-> list]
    /\ self_rules = NewService("aturan")
    /\ constructed = list

InitFrames ==
    /\ pc = [c \in Calls |-> "idle"]
    /\ data = [c \in Calls |-> NoRequest]
    /\ passed = [c \in Calls |-> NoRequest]
    /\ rule_idx = [c \in Calls |-> 0]
    /\ rule = [c \in Calls |-> "None"]
    /\ k = [c \in Calls |-> 0]
    /\ sks_terpilih = [c \in Calls |-> 0]
    /\ jadwal = [c \in Calls |-> {}]
    /\ result = [c \in Calls |-> "None"]
    /\ invoked = [c \in Calls |-> <<>>]
    /\ reported = [c \in Calls |-> <<>>]
    /\ overlapped = [c \in Calls |-> FALSE]
    /\ earlier = NoEarlier

----------------------------------------------------------------------------
(* SpecRules: each rule applied directly to a request *)

InitRules ==
    /\ InitService(aturan_lengkap)
    /\ InitFrames
    /\ rule_data \in RuleInputs
    /\ rule_out = NoRule

ValidateDirect(r) ==
    /\ rule_out = NoRule
    /\ rule_out' = [rule |-> r, verdict |-> Validate(r, rule_data)]
    /\ UNCHANGED <<heap, self_rules, constructed, frameVars, earlier, rule_data>>

NextRules == \E r \in RuleClasses : ValidateDirect(r)

SpecRules == InitRules /\ [][NextRules]_vars

----------------------------------------------------------------------------
(* RegistrationService.register_student, one step at a time per call frame *)

svcVars == <<heap, self_rules, constructed>>
otherVars == <<overlapped, earlier, rule_data, rule_out>>

Running(c) == pc[c] \notin {"idle", "done"}

Mahasiswa(c) == Get(data[c], "mahasiswa", EmptyDict)
KursusTerpilih(c) == Get(data[c], "kursus_terpilih", EmptyList)

\* line 60 reads data['mahasiswa']['nama']
HasNama(d) == "mahasiswa" \in DOMAIN d /\ "nama" \in DOMAIN d["mahasiswa"]

\* an iterator that is kept from one call to the next
IterKept(old) == old

\* line 62: every call starts a new iteration over self.rules
IterStart(old) == 0

\* the list walked from its end
RuleAtReversed(list, i) == list[Len(list) + 1 - i]

\* line 62: the i-th rule handed out by the iterator
RuleAt(list, i) == list[i]

\* a check that never stops the loop
FailedNever(v) == FALSE

\* line 65: if not rule.validate(data)
Failed(v) == v = "False"

\* the name of the last rule of the list
LastRuleName(r, list) == list[Len(list)]

\* line 66: rule.__class__.__name__ of the rule that just failed
FailingRuleName(r, list) == r

\* the set kept on the rule instance, which every call shares
JadwalScopeInstance(c) == 1

\* line 80: jadwal is a local of the running validate call
JadwalScope(c) == c

RuleEntry(r) ==
    CASE r = "SksLimitRule" -> "sks"
      [] r = "PrerequisiteRule" -> "prasyarat"
      [] r = "JadwalBentrokRule" -> "jadwal"

\* register_student(data) is called with a request of the pool: line 60,
\* then the iterator of line 62
Call(c, pool) ==
    /\ pc[c] = "idle"
    /\ \E d \in pool :
        /\ data' = [data EXCEPT ![c] = d]
        /\ passed' = [passed EXCEPT ![c] = d]
        /\ IF HasNama(d)
           THEN /\ pc' = [pc EXCEPT ![c] = "for"]
                /\ result' = [result EXCEPT ![c] = "None"]
                /\ rule_idx' = [rule_idx EXCEPT ![c] = IterStart(rule_idx[c])]
           ELSE /\ pc' = [pc EXCEPT ![c] = "done"]
                /\ result' = [result EXCEPT ![c] = "Error"]
                /\ UNCHANGED rule_idx
    /\ invoked' = [invoked EXCEPT ![c] = <<>>]
    /\ reported' = [reported EXCEPT ![c] = <<>>]
    /\ overlapped' = [o \in Calls |->
           IF o = c THEN \E x \in Calls \ {c} : Running(x)
           ELSE overlapped[o] \/ Running(o)]
    /\ UNCHANGED <<svcVars, rule, k, sks_terpilih, jadwal, earlier, rule_data,
                   rule_out>>

\* line 62 hands out the next rule and line 65 enters its validate
\* (lines 18-19, 34-37 or 78-80)
Iterate(c) ==
    /\ pc[c] = "for"
    /\ rule_idx[c] < Len(heap[self_rules])
    /\ LET r == RuleAt(heap[self_rules], rule_idx[c] + 1)
       IN  /\ rule' = [rule EXCEPT ![c] = r]
           /\ invoked' = [invoked EXCEPT ![c] = Append(@, r)]
           /\ pc' = [pc EXCEPT ![c] = RuleEntry(r)]
           /\ jadwal' = IF r = "JadwalBentrokRule"
                        THEN [jadwal EXCEPT ![JadwalScope(c)] = {}]
                        ELSE jadwal
    /\ rule_idx' = [rule_idx EXCEPT ![c] = @ + 1]
    /\ k' = [k EXCEPT ![c] = 1]
    /\ UNCHANGED <<svcVars, data, passed, sks_terpilih, result, reported,
                   otherVars>>

\* lines 69-70: the iterator is exhausted
Succeed(c) ==
    /\ pc[c] = "for"
    /\ rule_idx[c] >= Len(heap[self_rules])
    /\ pc' = [pc EXCEPT ![c] = "done"]
    /\ result' = [result EXCEPT ![c] = "True"]
    /\ UNCHANGED <<svcVars, data, passed, rule_idx, rule, k, sks_terpilih,
                   jadwal, invoked, reported, otherVars>>

\* validate leaves with verdict v: lines 65-67 of register_student
Leave(c, v) ==
    /\ k' = [k EXCEPT ![c] = 0]
    /\ rule' = [rule EXCEPT ![c] = "None"]
    /\ IF v = "Error"
       THEN /\ pc' = [pc EXCEPT ![c] = "done"]
            /\ result' = [result EXCEPT ![c] = "Error"]
            /\ UNCHANGED reported
       ELSE IF Failed(v)
       THEN /\ pc' = [pc EXCEPT ![c] = "done"]
            /\ result' = [result EXCEPT ![c] = "False"]
            /\ reported' = [reported EXCEPT
                   ![c] = Append(@, FailingRuleName(rule[c], heap[self_rules]))]
       ELSE /\ pc' = [pc EXCEPT ![c] = "for"]
            /\ UNCHANGED <<result, reported>>

Dropped(c) ==
    /\ pc[c] = "done"
    /\ pc' = [pc EXCEPT ![c] = "idle"]
    /\ data' = [data EXCEPT ![c] = NoRequest]
    /\ passed' = [passed EXCEPT ![c] = NoRequest]
    /\ result' = [result EXCEPT ![c] = "None"]
    /\ invoked' = [invoked EXCEPT ![c] = <<>>]
    /\ reported' = [reported EXCEPT ![c] = <<>>]
    /\ overlapped' = [overlapped EXCEPT ![c] = FALSE]
    /\ UNCHANGED <<svcVars, rule_idx, rule, k, sks_terpilih, jadwal,
                   rule_data, rule_out>>

\* lines 110 and 122: the caller drops the returned value; the frame is free
Discard(c) == Dropped(c) /\ UNCHANGED earlier

\* the same, with the call kept on record for later comparison
Remember(c) ==
    /\ Dropped(c)
    /\ earlier' = [data |-> data[c], result |-> result[c]]

\* line 21: one term of the sum
SksTerm(c) ==
    /\ pc[c] = "sks"
    /\ k[c] <= Len(KursusTerpilih(c))
    /\ IF HasSks(KursusTerpilih(c)[k[c]])
       THEN /\ sks_terpilih' = [sks_terpilih EXCEPT
                   ![c] = SksAccumulate(@, KursusTerpilih(c)[k[c]])]
            /\ k' = [k EXCEPT ![c] = @ + 1]
            /\ UNCHANGED <<pc, rule, result, reported>>
       ELSE /\ Leave(c, "Error")
            /\ sks_terpilih' = [sks_terpilih EXCEPT ![c] = 0]
    /\ UNCHANGED <<svcVars, data, passed, rule_idx, jadwal, invoked, otherVars>>

\* lines 22-29
SksReturn(c) ==
    /\ pc[c] = "sks"
    /\ k[c] > Len(KursusTerpilih(c))
    /\ LET batas_sks == BatasSks(Mahasiswa(c))
       IN  Leave(c, IF Raised(batas_sks) THEN "Error"
                    ELSE IF SksExceeds(sks_terpilih[c], Value(batas_sks))
                    THEN "False" ELSE "True")
    /\ sks_terpilih' = [sks_terpilih EXCEPT ![c] = 0]
    /\ UNCHANGED <<svcVars, data, passed, rule_idx, jadwal, invoked, otherVars>>

\* lines 39-43: one course of the prerequisite loop
PrasyaratCheck(c) ==
    /\ pc[c] = "prasyarat"
    /\ k[c] <= Len(KursusTerpilih(c))
    /\ IF PrasyaratUnmet(KursusTerpilih(c)[k[c]], RiwayatLulus(Mahasiswa(c)))
       THEN Leave(c, PrasyaratFailure(KursusTerpilih(c)[k[c]]))
       ELSE /\ k' = [k EXCEPT ![c] = @ + 1]
            /\ UNCHANGED <<pc, rule, result, reported>>
    /\ UNCHANGED <<svcVars, data, passed, rule_idx, sks_terpilih, jadwal,
                   invoked, otherVars>>

\* lines 45-46
PrasyaratReturn(c) ==
    /\ pc[c] = "prasyarat"
    /\ k[c] > Len(KursusTerpilih(c))
    /\ Leave(c, "True")
    /\ UNCHANGED <<svcVars, data, passed, rule_idx, sks_terpilih, jadwal,
                   invoked, otherVars>>

\* lines 81-86: one course of the time-slot loop
JadwalCheck(c) ==
    /\ pc[c] = "jadwal"
    /\ k[c] <= Len(KursusTerpilih(c))
    /\ LET waktu == Waktu(KursusTerpilih(c)[k[c]])
       IN  IF Bentrok(waktu, jadwal[JadwalScope(c)])
           THEN /\ Leave(c, "False")
                /\ jadwal' = [jadwal EXCEPT ![JadwalScope(c)] = {}]
           ELSE /\ jadwal' = [jadwal EXCEPT
                       ![JadwalScope(c)] = JadwalAdd(@, waktu)]
                /\ k' = [k EXCEPT ![c] = @ + 1]
                /\ UNCHANGED <<pc, rule, result, reported>>
    /\ UNCHANGED <<svcVars, data, passed, rule_idx, sks_terpilih, invoked,
                   otherVars>>

\* lines 88-89
JadwalReturn(c) ==
    /\ pc[c] = "jadwal"
    /\ k[c] > Len(KursusTerpilih(c))
    /\ Leave(c, "True")
    /\ jadwal' = [jadwal EXCEPT ![JadwalScope(c)] = {}]
    /\ UNCHANGED <<svcVars, data, passed, rule_idx, sks_terpilih, invoked,
                   otherVars>>

----------------------------------------------------------------------------
(* register_student as a function of the rule list and the request *)

RECURSIVE RegisterFrom(_, _, _)
RegisterFrom(list, i, d) ==
    IF i > Len(list) THEN "True"
    ELSE LET v == Validate(RuleAt(list, i), d)
         IN  IF v = "Error" THEN "Error"
             ELSE IF Failed(v) THEN "False"
             ELSE RegisterFrom(list, i + 1, d)

RegisterStudent(list, d) ==
    IF HasNama(d) THEN RegisterFrom(list, 1, d) ELSE "Error"

----------------------------------------------------------------------------
(* Spec: one service, one call after the other *)

\* courses of the requests given to the service
ServiceCourses ==
    [nama : {"STRUKTUR DATA"}, sks : {13},
     prasyarat : {None, "ALGORITMA"}, jadwal : Slots]
    \cup [nama : {"STRUKTUR DATA"}, sks : {13}, jadwal : Slots]

ServiceRequests ==
    [mahasiswa : Students, kursus_terpilih : SeqsUpTo(ServiceCourses, MaxCourses)]
    \cup DemoRequests \cup PartialRequests

Init ==
    /\ \E list \in RuleLists : InitService(list)
    /\ InitFrames
    /\ rule_data = NoRequest
    /\ rule_out = NoRule

Next ==
    \/ Call(1, ServiceRequests)
    \/ Iterate(1)
    \/ Succeed(1)
    \/ SksTerm(1)
    \/ SksReturn(1)
    \/ PrasyaratCheck(1)
    \/ PrasyaratReturn(1)
    \/ JadwalCheck(1)
    \/ JadwalReturn(1)
    \/ Discard(1)

Spec == Init /\ [][Next]_vars

----------------------------------------------------------------------------
(* SpecShared: several calls on one service, their steps interleaved *)

data_gagal_prasyarat ==
    [mahasiswa |-> [nama |-> "Citra", max_sks |-> 24,
                    riwayat_kursus |-> <<"DASPRO">>],
     kursus_terpilih |-> <<
        [nama |-> "JARINGAN KOMPUTER", sks |-> 4, prasyarat |-> None,
         jadwal |-> "SELASA 08:00"],
        [nama |-> "STRUKTUR DATA", sks |-> 4, prasyarat |-> "ALGORITMA",
         jadwal |-> "SENIN 10:00"] >>]

data_gagal_jadwal ==
    [mahasiswa |-> [nama |-> "Dewi", riwayat_kursus |-> <<"DASPRO">>],
     kursus_terpilih |-> <<
        [nama |-> "STRUKTUR DATA", sks |-> 4, prasyarat |-> "DASPRO",
         jadwal |-> "SENIN 10:00"],
        [nama |-> "JARINGAN KOMPUTER", sks |-> 4, jadwal |-> "SELASA 08:00"],
        [nama |-> "BASIS DATA", sks |-> 4, jadwal |-> "SENIN 10:00"] >>]

SharedRequests ==
    DemoRequests \cup {data_gagal_prasyarat, data_gagal_jadwal}

InitShared ==
    /\ \E list \in RuleLists : InitService(list)
    /\ InitFrames
    /\ rule_data = NoRequest
    /\ rule_out = NoRule

NextShared ==
    \E c \in Calls :
        \/ Call(c, SharedRequests)
        \/ Iterate(c)
        \/ Succeed(c)
        \/ SksTerm(c)
        \/ SksReturn(c)
        \/ PrasyaratCheck(c)
        \/ PrasyaratReturn(c)
        \/ JadwalCheck(c)
        \/ JadwalReturn(c)
        \/ Discard(c)

SpecShared == InitShared /\ [][NextShared]_vars

----------------------------------------------------------------------------
(* SpecRepeat: one call after the other, one finished call kept on record *)

RepeatRequests == SharedRequests \cup PartialRequests

NextRepeat ==
    \/ Call(1, RepeatRequests)
    \/ Iterate(1)
    \/ Succeed(1)
    \/ SksTerm(1)
    \/ SksReturn(1)
    \/ PrasyaratCheck(1)
    \/ PrasyaratReturn(1)
    \/ JadwalCheck(1)
    \/ JadwalReturn(1)
    \/ Discard(1)
    \/ Remember(1)

SpecRepeat == Init /\ [][NextRepeat]_vars

----------------------------------------------------------------------------
(* SpecAlias: between calls the caller changes the list object it injected *)

CallerIdle == pc[1] \in {"idle", "done"}

RECURSIVE Reversed(_)
Reversed(list) ==
    IF list = <<>> THEN <<>> ELSE Append(Reversed(Tail(list)), Head(list))

\* aturan.append(r)
AturanAppend(r) ==
    /\ CallerIdle
    /\ Len(heap["aturan"]) < MaxRules
    /\ heap' = [heap EXCEPT !["aturan"] = Append(@, r)]
    /\ UNCHANGED <<self_rules, constructed, frameVars, earlier, rule_data,
                   rule_out>>

\* aturan.pop()
AturanPop ==
    /\ CallerIdle
    /\ heap["aturan"] # <<>>
    /\ heap' = [heap EXCEPT !["aturan"] = SubSeq(@, 1, Len(@) - 1)]
    /\ UNCHANGED <<self_rules, constructed, frameVars, earlier, rule_data,
                   rule_out>>

\* aturan.reverse()
AturanReverse ==
    /\ CallerIdle
    /\ Len(heap["aturan"]) > 1
    /\ heap' = [heap EXCEPT !["aturan"] = Reversed(@)]
    /\ UNCHANGED <<self_rules, constructed, frameVars, earlier, rule_data,
                   rule_out>>

NextAlias ==
    \/ Call(1, SharedRequests)
    \/ Iterate(1)
    \/ Succeed(1)
    \/ SksTerm(1)
    \/ SksReturn(1)
    \/ PrasyaratCheck(1)
    \/ PrasyaratReturn(1)
    \/ JadwalCheck(1)
    \/ JadwalReturn(1)
    \/ Discard(1)
    \/ \E r \in RuleClasses : AturanAppend(r)
    \/ AturanPop
    \/ AturanReverse

SpecAlias == Init /\ [][NextAlias]_vars

----------------------------------------------------------------------------
(* What the claims speak of, stated on the request itself *)

StudentOf(d) == IF "mahasiswa" \in DOMAIN d THEN d["mahasiswa"] ELSE EmptyDict
SelectionOf(d) ==
    IF "kursus_terpilih" \in DOMAIN d THEN d["kursus_terpilih"] ELSE <<>>

RECURSIVE TotalCredits(_)
TotalCredits(selection) ==
    IF selection = <<>> THEN 0
    ELSE Head(selection)["sks"] + TotalCredits(Tail(selection))

CreditLimit(d) ==
    IF "max_sks" \in DOMAIN StudentOf(d) THEN StudentOf(d)["max_sks"] ELSE 24

Completed(d) ==
    IF "riwayat_kursus" \in DOMAIN StudentOf(d)
    THEN {StudentOf(d)["riwayat_kursus"][i] :
             i \in DOMAIN StudentOf(d)["riwayat_kursus"]}
    ELSE {}

AllHave(d, key) ==
    \A i \in DOMAIN SelectionOf(d) : key \in DOMAIN SelectionOf(d)[i]

\* the prerequisite is present and not null
PrerequisiteSet(course) ==
    "prasyarat" \in DOMAIN course /\ course["prasyarat"] # None

\* the prerequisite is present, not null and not the empty string
PrerequisiteNamed(course) ==
    PrerequisiteSet(course) /\ course["prasyarat"] # ""

SlotOf(course) == IF "jadwal" \in DOMAIN course THEN course["jadwal"] ELSE None

\* the request carries the fields the data model requires
WellFormed(d) ==
    /\ "mahasiswa" \in DOMAIN d
    /\ "nama" \in DOMAIN d["mahasiswa"]
    /\ AllHave(d, "nama")
    /\ AllHave(d, "sks")

Verdicts == {"True", "False"}

Passes(r, d) == Validate(r, d) = "True"
Fails(r, d) == Validate(r, d) = "False"

----------------------------------------------------------------------------
(* Claims about the rules, under SpecRules *)

\* C3: SksLimitRule.validate returns False exactly when the credit units of
\* the selected courses sum to more than the student's max_sks (24 when the
\* student has none); a total equal to the limit and an empty selection pass.
C3_SksLimitIffTotalExceeds ==
    (rule_out.rule = "SksLimitRule" /\ AllHave(rule_data, "sks")) =>
        /\ rule_out.verdict \in Verdicts
        /\ rule_out.verdict = "False" <=>
               TotalCredits(SelectionOf(rule_data)) > CreditLimit(rule_data)
        /\ SelectionOf(rule_data) = <<>> => rule_out.verdict = "True"

\* a student without max_sks whose selection totals exactly 24 has passed
C3_Witness ==
    /\ rule_out.rule = "SksLimitRule"
    /\ "max_sks" \notin DOMAIN StudentOf(rule_data)
    /\ AllHave(rule_data, "sks")
    /\ TotalCredits(SelectionOf(rule_data)) = 24
    /\ rule_out.verdict = "True"

\* C4 as stated: PrerequisiteRule.validate returns True exactly when every
\* selected course whose prerequisite is set (present and not null) names a
\* completed course.
C4_TrueIffEverySetPrerequisiteCompleted ==
    (rule_out.rule = "PrerequisiteRule" /\ AllHave(rule_data, "nama")) =>
        (rule_out.verdict = "True" <=>
            \A i \in DOMAIN SelectionOf(rule_data) :
                PrerequisiteSet(SelectionOf(rule_data)[i]) =>
                    SelectionOf(rule_data)[i]["prasyarat"] \in Completed(rule_data))

\* C4 amended: PrerequisiteRule.validate returns True exactly when every
\* selected course whose prerequisite is present, not null and not the empty
\* string names a completed course; otherwise it returns False, wherever in
\* the selection the unmet prerequisite stands.
C4_TrueIffEveryNamedPrerequisiteCompleted ==
    (rule_out.rule = "PrerequisiteRule" /\ AllHave(rule_data, "nama")) =>
        /\ rule_out.verdict \in Verdicts
        /\ rule_out.verdict = "True" <=>
            \A i \in DOMAIN SelectionOf(rule_data) :
                PrerequisiteNamed(SelectionOf(rule_data)[i]) =>
                    SelectionOf(rule_data)[i]["prasyarat"] \in Completed(rule_data)

\* three courses: an empty prerequisite, no prerequisite key, and last the
\* only course with an unmet prerequisite; the rule has returned False
C4_Witness ==
    /\ rule_out.rule = "PrerequisiteRule"
    /\ rule_out.verdict = "False"
    /\ Len(SelectionOf(rule_data)) = 3
    /\ AllHave(rule_data, "nama")
    /\ PrerequisiteSet(SelectionOf(rule_data)[1])
    /\ SelectionOf(rule_data)[1]["prasyarat"] = ""
    /\ "prasyarat" \notin DOMAIN SelectionOf(rule_data)[2]
    /\ PrerequisiteNamed(SelectionOf(rule_data)[3])
    /\ SelectionOf(rule_data)[3]["prasyarat"] \notin Completed(rule_data)

\* C5: JadwalBentrokRule.validate returns True exactly when the time slots of
\* the selected courses are pairwise distinct, whatever the credit units,
\* prerequisites and student record of the request are.
C5_TrueIffSlotsPairwiseDistinct ==
    rule_out.rule = "JadwalBentrokRule" =>
        /\ rule_out.verdict \in Verdicts
        /\ rule_out.verdict = "True" <=>
            \A i, j \in DOMAIN SelectionOf(rule_data) :
                i # j => SlotOf(SelectionOf(rule_data)[i])
                             # SlotOf(SelectionOf(rule_data)[j])

\* the first and the third course share a slot, the second has another one,
\* and the rule has returned False
C5_Witness ==
    /\ rule_out.rule = "JadwalBentrokRule"
    /\ rule_out.verdict = "False"
    /\ Len(SelectionOf(rule_data)) = 3
    /\ SlotOf(SelectionOf(rule_data)[1]) = SlotOf(SelectionOf(rule_data)[3])
    /\ SlotOf(SelectionOf(rule_data)[1]) # SlotOf(SelectionOf(rule_data)[2])

----------------------------------------------------------------------------
(* Claims about register_student, under Spec *)

Returned(c) == pc[c] = "done" /\ result[c] \in Verdicts

\* C1: a register_student call that returns, returns True exactly when every
\* rule of the injected list returns True on the request; with an empty list
\* it returns True.
C1_ResultIsConjunctionOfRules ==
    \A c \in Calls :
        /\ Returned(c) =>
              (result[c] = "True" <=>
                  \A i \in DOMAIN constructed : Passes(constructed[i], data[c]))
        /\ (pc[c] = "done" /\ constructed = <<>> /\ HasNama(data[c])) =>
              result[c] = "True"

\* the three rules of the demonstration have all passed a request of two or
\* more courses and the call has returned True
C1_Witness ==
    /\ pc[1] = "done"
    /\ result[1] = "True"
    /\ constructed = aturan_lengkap
    /\ Len(SelectionOf(data[1])) >= 2

\* C2: in one call the i-th rule validated is the i-th rule of the injected
\* list, so each is validated at most once, and every rule validated before
\* the latest one returned True: nothing is validated after a False.
C2_InOrderUntilFirstFalse ==
    \A c \in Calls :
        /\ Len(invoked[c]) <= Len(constructed)
        /\ \A i \in DOMAIN invoked[c] : invoked[c][i] = constructed[i]
        /\ \A i \in DOMAIN invoked[c] :
               i < Len(invoked[c]) => Passes(invoked[c][i], data[c])
        /\ (pc[c] = "done" /\ result[c] = "False") =>
               Fails(invoked[c][Len(invoked[c])], data[c])

\* the demonstration's second run: SksLimitRule first, a total of 12 over a
\* limit of 8, and the call is over with the other two rules never reached
C2_Witness ==
    /\ pc[1] = "done"
    /\ constructed = aturan_lengkap
    /\ data[1] = data_mahasiswa_gagal_sks
    /\ result[1] = "False"
    /\ invoked[1] = <<"SksLimitRule">>

\* C7: for a request that carries the required fields (student name, course
\* names and credit units), with max_sks or prasyarat missing or not, every
\* rule and register_student end with True or False, never with an error.
C7_MissingOptionalFieldsAreNoError ==
    \A c \in Calls :
        WellFormed(data[c]) =>
            /\ pc[c] = "done" => result[c] \in Verdicts
            /\ \A r \in RuleClasses : Validate(r, data[c]) \in Verdicts

\* a student without max_sks and a course without prasyarat went through the
\* three rules and the call returned True
C7_Witness ==
    /\ pc[1] = "done"
    /\ result[1] = "True"
    /\ constructed = aturan_lengkap
    /\ WellFormed(data[1])
    /\ "max_sks" \notin DOMAIN StudentOf(data[1])
    /\ \E i \in DOMAIN SelectionOf(data[1]) :
           "prasyarat" \notin DOMAIN SelectionOf(data[1])[i]

\* C8: a call that returns False has reported exactly one rule, the first
\* rule in list order that returns False on the request; a call that returns
\* True has reported none.
C8_ReportsFirstFailingRuleOnly ==
    \A c \in Calls :
        /\ (pc[c] = "done" /\ result[c] = "False") =>
               \E i \in DOMAIN constructed :
                   /\ Fails(constructed[i], data[c])
                   /\ \A j \in 1..(i - 1) : ~Fails(constructed[j], data[c])
                   /\ reported[c] = <<constructed[i]>>
        /\ (pc[c] = "done" /\ result[c] = "True") => reported[c] = <<>>

\* two rules of the list return False on the request and only the first of
\* them was reported
C8_Witness ==
    /\ pc[1] = "done"
    /\ result[1] = "False"
    /\ \E i, j \in DOMAIN constructed :
           /\ i < j
           /\ Fails(constructed[i], data[1])
           /\ Fails(constructed[j], data[1])
           /\ reported[1] = <<constructed[i]>>

----------------------------------------------------------------------------
(* Claims about calls that share the service *)

\* C9 (SpecShared): a call whose steps are interleaved with those of other
\* calls on the same service ends with the outcome register_student has on
\* its request when it runs alone.
C9_InterleavedCallsReturnAsAlone ==
    \A c \in Calls :
        pc[c] = "done" => result[c] = RegisterStudent(heap[self_rules], data[c])

\* a call that ran while another call was running has returned False from
\* JadwalBentrokRule, and the other call, on another request, is inside that
\* rule with slots of its own recorded
C9_Witness ==
    \E c, o \in Calls :
        /\ c # o
        /\ pc[c] = "done"
        /\ overlapped[c]
        /\ result[c] = "False"
        /\ reported[c] = <<"JadwalBentrokRule">>
        /\ pc[o] = "jadwal"
        /\ overlapped[o]
        /\ jadwal[o] # {}
        /\ data[o] # data[c]

\* C10 (SpecRepeat): a call with the request of an earlier call ends with the
\* result of that earlier call, whatever was validated in between, and the
\* request is as it was when passed.
C10_SameRequestSameResult ==
    /\ (pc[1] = "done" /\ earlier.result # "None" /\ earlier.data = data[1]) =>
           result[1] = earlier.result
    /\ \A c \in Calls : data[c] = passed[c]

\* a request that was refused before has been refused again
C10_Witness ==
    /\ pc[1] = "done"
    /\ earlier.data = data[1]
    /\ earlier.result = "False"
    /\ result[1] = "False"
    /\ rule_idx[1] > 0

\* C6 (SpecAlias): in every call the rules validated are the rules that were
\* in the list at construction, in that order, whatever the caller did to
\* the list object since.
C6_RulesFixedAtConstruction ==
    \A c \in Calls :
        /\ Len(invoked[c]) <= Len(constructed)
        /\ \A i \in DOMAIN invoked[c] : invoked[c][i] = constructed[i]
        /\ (pc[c] = "done" /\ result[c] = "True") => invoked[c] = constructed

====
